---- MODULE Spec2Model ----
(***************************************************************************)
(* A state-machine model of bamUtil's "dedup" executable (src/Dedup.cpp):  *)
(* pass 1 streams the coordinate-sorted input through hasPositionChanged,  *)
(* cleanupPriorReads and checkDups, building myDupList; pass 2 re-reads    *)
(* the input and marks or removes the records listed in myDupList.         *)
(***************************************************************************)
EXTENDS Integers, Sequences, FiniteSets, TLC

\* Dedup::DEFAULT_MIN_QUAL and Dedup::CLIP_OFFSET.
DEFAULT_MIN_QUAL == 15
CLIP_OFFSET == 1000

\* The longest input file explored, and the longest made of pairs only.
MaxRecords == 5
MaxPairRecords == 6

\* The largest number of records the pool may hold when it is limited.
MaxPoolRecords == 3

VARIABLES
    opts,            \* the command line: oneChrom, force, rmDups, recab, minQual,
                     \* and the header's read-group dictionary
    source,          \* the input: the records the file may be made of and how many
                     \* of them it may hold; for a second run (run = 2) the file to
                     \* read again (replay) and the Duplicate List of the first run;
                     \* of them it may hold
    pc,              \* the position of Dedup::execute
    file,            \* the input file, as far as pass 1 has read it
    recordPtr,       \* execute's recordPtr: a pool slot, 0 for NULL
    slotRec,         \* pool slot -> index in file of the record loaded in it
    freeRecs,        \* mySamPool's queue of released records
    lastReference,   \* Dedup::lastReference
    lastCoordinate,  \* Dedup::lastCoordinate
    fragMap,         \* myFragmentMap : DupKey -> ReadData
    pairedMap,       \* myPairedMap   : PairedKey -> PairedData
    mateMap,         \* myMateMap     : multimap, kept as a sequence in key order
    dupList,         \* myDupList
    numMissingMate,  \* myNumMissingMate
    currentDupIndex, \* pass 2's cursor into myDupList
    moreDups,        \* pass 2's moreDups
    p2Count,         \* pass 2's samIn.GetCurrentRecordCount()
    out,             \* the records written to samOut: <<index, flag>> in order
    relCount,        \* history: record index -> times its pooled record was released
    missCount,       \* history: record index -> times handed to handleMissingMate
    fragWindow,      \* history: record index -> index of the record that opened the
                     \* Fragment Map entry it was compared in (0: none)
    pairWindow,      \* history: record index -> index of the record that opened the
                     \* Paired Map entry its pair was compared in (0: none)
    mateOf,          \* history: record index -> index of the mate it was paired with
    lastCleanup,     \* history: the last cleanupPriorReads call: its boundary and the
                     \* three maps as they were when it was entered
    buildCount,      \* history: record index -> times its record was passed to
                     \* myRecab.processReadBuildTable
    fitCount,        \* history: the number of myRecab.modelFitPrediction calls
    applied          \* history: the indices of the records passed to
                     \* myRecab.processReadApplyTable, in order

vars == <<opts, source, pc, file, recordPtr, slotRec, freeRecs, lastReference,
          lastCoordinate, fragMap, pairedMap, mateMap, dupList, numMissingMate,
          currentDupIndex, moreDups, p2Count, out, relCount, missCount,
          fragWindow, pairWindow, mateOf, lastCleanup, buildCount, fitCount,
          applied>>

----------------------------------------------------------------------------
\* SamFlag bits.

Bit(flag, b) == (flag \div b) % 2 = 1

isPaired(flag) == Bit(flag, 1)
isProperPair(flag) == Bit(flag, 2)
\* isMapped taking every record for mapped
isMappedAlways(flag) == TRUE

isMapped(flag) == ~Bit(flag, 4)
isMateMapped(flag) == ~Bit(flag, 8)
isReverse(flag) == Bit(flag, 16)
isDuplicate(flag) == Bit(flag, 1024)

\* flag | 0x400
SetDuplicateBit(flag) == IF Bit(flag, 1024) THEN flag ELSE flag + 1024

\* flag & 0xfffffbff
ClearDuplicateBit(flag) == IF Bit(flag, 1024) THEN flag - 1024 ELSE flag

----------------------------------------------------------------------------
\* An alignment record of the input.
\*   clip: the distance between the aligned start and the unclipped 5' end
\*   qual: the Phred qualities of its bases (the quality string minus 33)
\*   rg:   the value of its RG tag, "" when it has none
Rec(name, flag, ref, pos, mref, mpos, clip, qual, rg) ==
    [name |-> name, flag |-> flag, ref |-> ref, pos |-> pos, mref |-> mref,
     mpos |-> mpos, clip |-> clip, qual |-> qual, rg |-> rg]

RECURSIVE SumFrom(_, _, _)
SumFrom(q, i, minQual) ==
    IF i > Len(q) THEN 0
    ELSE (IF q[i] >= minQual THEN q[i] ELSE 0) + SumFrom(q, i + 1, minQual)

\* strcmp(baseQualities, "*") == 0: the quality string of a read whose only
\* base has Phred quality 9 is "*" ('*' is character 42 = 9 + 33), the string
\* that stands for qualities not stored
QualityIsStar(qual) == qual = <<9>>

\* Dedup::getBaseQuality
getBaseQuality(rec, minQual) ==
    IF QualityIsStar(rec.qual) THEN 0 ELSE SumFrom(rec.qual, 1, minQual)

----------------------------------------------------------------------------
\* DupKey and PairedKey.

DupKey(reference, coordinate, orientation, libraryID) ==
    [reference |-> reference, coordinate |-> coordinate,
     orientation |-> orientation, libraryID |-> libraryID]

emptyKey == DupKey(0, 0, FALSE, 0)

\* DupKey::updateKey
updateKey(rec, libraryID) ==
    DupKey(rec.ref,
           IF isReverse(rec.flag) THEN rec.pos + rec.clip ELSE rec.pos - rec.clip,
           isReverse(rec.flag), libraryID)

\* DupKey::cleanupKey
cleanupKey(reference, coordinate) ==
    DupKey(reference, coordinate - CLIP_OFFSET, FALSE, 0)

\* DupKey::operator<
DupKeyLess(a, b) ==
    IF a.reference = b.reference
    THEN IF a.coordinate = b.coordinate
         THEN IF a.orientation = b.orientation
              THEN a.libraryID < b.libraryID
              ELSE ~a.orientation
         ELSE a.coordinate < b.coordinate
    ELSE a.reference < b.reference

\* PairedKey::PairedKey
PairedKey(k1, k2) ==
    IF DupKeyLess(k2, k1) THEN [key1 |-> k2, key2 |-> k1]
    ELSE [key1 |-> k1, key2 |-> k2]

\* PairedKey::operator<
PairedKeyLess(a, b) ==
    IF a.key2 = b.key2 THEN DupKeyLess(a.key1, b.key1)
    ELSE DupKeyLess(a.key2, b.key2)

\* SamHelper::combineChromPos: ((uint64_t)chromID << 32) | (position & 0xFFFFFFFF),
\* kept as its two 32-bit halves.
combineChromPos(chromID, position) == [hi |-> chromID, lo |-> position]

\* a < b for two int32 values read as uint32
U32Less(a, b) ==
    IF (a >= 0) = (b >= 0) THEN a < b ELSE a >= 0

ChromPosLess(a, b) ==
    IF a.hi = b.hi THEN U32Less(a.lo, b.lo) ELSE U32Less(a.hi, b.hi)

ChromPosLeq(a, b) == a = b \/ ChromPosLess(a, b)

----------------------------------------------------------------------------
\* Finite maps and the record pool.

Put(f, k, v) == [x \in (DOMAIN f) \cup {k} |-> IF x = k THEN v ELSE f[x]]

Drop(f, S) == [x \in (DOMAIN f) \ S |-> f[x]]

RECURSIVE FragKeysInOrder(_)
FragKeysInOrder(S) ==
    IF S = {} THEN <<>>
    ELSE LET m == CHOOSE k \in S : \A j \in S \ {k} : DupKeyLess(k, j)
         IN <<m>> \o FragKeysInOrder(S \ {m})

RECURSIVE PairKeysInOrder(_)
PairKeysInOrder(S) ==
    IF S = {} THEN <<>>
    ELSE LET m == CHOOSE k \in S : \A j \in S \ {k} : PairedKeyLess(k, j)
         IN <<m>> \o PairKeysInOrder(S \ {m})

RECURSIVE Concat(_, _, _)
\* f[s[i]] \o f[s[i+1]] \o ... for a sequence s of keys and a map f to sequences
Concat(s, f, i) ==
    IF i > Len(s) THEN <<>> ELSE f[s[i]] \o Concat(s, f, i + 1)

\* the argument of one SamRecordPool::releaseRecord call: NULL releases nothing
Released(ptr) == IF ptr = 0 THEN <<>> ELSE <<ptr>>

\* the record a pool slot holds
RecAt(ptr) == file[slotRec[ptr]]

RECURSIVE CountIn(_, _, _)
\* the number of slots in freed[i..] that hold record idx
CountIn(freed, idx, i) ==
    IF i > Len(freed) THEN 0
    ELSE (IF slotRec[freed[i]] = idx THEN 1 ELSE 0) + CountIn(freed, idx, i + 1)

\* ReadData::ReadData and what checkDups stores in one
ReadData(sumBaseQual, recordIndex, paired, ptr) ==
    [sumBaseQual |-> sumBaseQual, recordIndex |-> recordIndex,
     paired |-> paired, recordPtr |-> ptr]

\* what checkDups stores in a PairedData
PairedData(sumBaseQual, ptr1, ptr2, index1, index2) ==
    [sumBaseQual |-> sumBaseQual, record1Ptr |-> ptr1, record2Ptr |-> ptr2,
     record1Index |-> index1, record2Index |-> index2]

----------------------------------------------------------------------------
\* Dedup::buildReadGroupLibraryMap over the header's RG lines, each an ID and an
\* LB value ("" when the tag is absent), from line i on.
RECURSIVE buildReadGroupLibraryMap(_, _, _, _, _)
buildReadGroupLibraryMap(header, i, libNameMap, rgMap, libraries) ==
    IF i > Len(header)
    THEN [fatal |-> libraries > 255, numLibraries |-> libraries,
          rgidLibMap |-> rgMap]
    ELSE LET ID == header[i].ID
             LB == header[i].LB
         IN IF ID = "" \/ ID \in DOMAIN rgMap
            THEN [fatal |-> TRUE, numLibraries |-> libraries, rgidLibMap |-> rgMap]
            ELSE IF LB \in DOMAIN libNameMap
            THEN buildReadGroupLibraryMap(header, i + 1, libNameMap,
                                          Put(rgMap, ID, libNameMap[LB]), libraries)
            ELSE LET n == Cardinality(DOMAIN libNameMap) + 1
                 IN buildReadGroupLibraryMap(header, i + 1, Put(libNameMap, LB, n),
                                             Put(rgMap, ID, n), n)

\* The checkTags argument of getLibraryID: checkDups leaves it out, and the
\* declaration's default is false.
checkTags == FALSE

\* getLibraryID without the error for a record that has no RG tag
getLibraryIDMissingTagZero(rec) ==
    IF checkTags = FALSE /\ opts.numLibraries <= 1 THEN [fatal |-> FALSE, id |-> 0]
    ELSE IF rec.rg \in DOMAIN opts.rgidLibMap
         THEN [fatal |-> FALSE, id |-> opts.rgidLibMap[rec.rg]]
         ELSE [fatal |-> FALSE, id |-> 0]

\* Dedup::getLibraryID: the library id of a record, or a fatal error.
getLibraryID(rec) ==
    IF checkTags = FALSE /\ opts.numLibraries <= 1 THEN [fatal |-> FALSE, id |-> 0]
    ELSE IF rec.rg = "" THEN [fatal |-> TRUE, id |-> 0]
    ELSE IF rec.rg \in DOMAIN opts.rgidLibMap
         THEN [fatal |-> FALSE, id |-> opts.rgidLibMap[rec.rg]]
         ELSE [fatal |-> FALSE, id |-> 0]

\* RecordPaired without the one-chromosome demotion
RecordPairedNoDemotion(rec) ==
    /\ isPaired(rec.flag)
    /\ isMateMapped(rec.flag)

\* checkDups' recordPaired, after the one-chromosome demotion
RecordPaired(rec) ==
    /\ isPaired(rec.flag)
    /\ isMateMapped(rec.flag)
    /\ ~(opts.oneChrom /\ rec.ref # rec.mref)

----------------------------------------------------------------------------
\* Dedup::cleanupPriorReads

\* iter is before fragmentFinish = myFragmentMap.lower_bound(tempKey2)
BeforeFragmentFinish(k, reference, coordinate) ==
    DupKeyLess(k, cleanupKey(reference, coordinate))

\* iter is before pairedFinish = myPairedMap.lower_bound(pairedKey)
BeforePairedFinish(pk, reference, coordinate) ==
    PairedKeyLess(pk, PairedKey(emptyKey, cleanupKey(reference, coordinate)))

\* BeforeMateStop with > for >=: the loop passes an entry at the stop position
BeforeMateStopInclusive(matePos, reference, coordinate) ==
    ChromPosLeq(matePos, combineChromPos(reference, coordinate))

\* the mate-map loop goes on: !(mateIter->first >= mateStopPos)
BeforeMateStop(matePos, reference, coordinate) ==
    ChromPosLess(matePos, combineChromPos(reference, coordinate))

RECURSIVE MateStopIndexNoNullCheck(_, _, _, _, _)
\* MateStopIndex without the (record != NULL) test of the loop's break
MateStopIndexNoNullCheck(mm, i, hasRecord, reference, coordinate) ==
    IF i > Len(mm) THEN Len(mm)
    ELSE IF ~BeforeMateStop(mm[i].key, reference, coordinate)
         THEN i - 1
         ELSE MateStopIndexNoNullCheck(mm, i + 1, hasRecord, reference, coordinate)

RECURSIVE MateStopIndex(_, _, _, _, _)
\* the number of leading mate-map entries the loop passes before it breaks
MateStopIndex(mm, i, hasRecord, reference, coordinate) ==
    IF i > Len(mm) THEN Len(mm)
    ELSE IF hasRecord /\ ~BeforeMateStop(mm[i].key, reference, coordinate)
         THEN i - 1
         ELSE MateStopIndex(mm, i + 1, hasRecord, reference, coordinate)

\* The maps cleanupPriorReads leaves and the records it hands to
\* handleNonDuplicate and handleMissingMate, in order.  hasRecord is
\* record != NULL.
cleanupPriorReads(hasRecord, reference, coordinate) ==
    LET fragGone == IF hasRecord
                    THEN {k \in DOMAIN fragMap :
                             BeforeFragmentFinish(k, reference, coordinate)}
                    ELSE DOMAIN fragMap
        pairGone == IF hasRecord
                    THEN {k \in DOMAIN pairedMap :
                             BeforePairedFinish(k, reference, coordinate)}
                    ELSE DOMAIN pairedMap
        stop == MateStopIndex(mateMap, 1, hasRecord, reference, coordinate)
        fragFreed == Concat(FragKeysInOrder(fragGone),
                            [k \in fragGone |->
                                IF fragMap[k].paired THEN <<>>
                                ELSE Released(fragMap[k].recordPtr)], 1)
        pairFreed == Concat(PairKeysInOrder(pairGone),
                            [k \in pairGone |->
                                Released(pairedMap[k].record1Ptr)
                                \o Released(pairedMap[k].record2Ptr)], 1)
        mateFreed == Concat([i \in 1..stop |-> i],
                            [i \in 1..stop |-> Released(mateMap[i].data.recordPtr)], 1)
    IN [fragMap |-> Drop(fragMap, fragGone),
        pairedMap |-> Drop(pairedMap, pairGone),
        mateMap |-> SubSeq(mateMap, stop + 1, Len(mateMap)),
        nonDup |-> fragFreed \o pairFreed,
        missing |-> mateFreed]

\* handleMissingMate releasing the record itself, not through handleNonDuplicate
handleMissingMateReleaseOnly(ptrs) == <<>>

\* Dedup::handleMissingMate: the records it hands on to handleNonDuplicate
handleMissingMate(ptrs) == ptrs

\* Dedup::handleNonDuplicate: the records it passes to processReadBuildTable
handleNonDuplicate(ptrs) == IF opts.recab THEN ptrs ELSE <<>>

\* hasPositionChanged with <= for <: true for a record at the last position too
hasPositionChangedOnEqual(rec) ==
    lastReference # rec.ref \/ lastCoordinate <= rec.pos

\* Dedup::hasPositionChanged
hasPositionChanged(rec) ==
    lastReference # rec.ref \/ lastCoordinate < rec.pos

----------------------------------------------------------------------------
\* Dedup::checkDups

\* FragmentReplaces with >= for >: an equal quality takes the entry too
FragmentReplacesOnTie(inserted, readData, recordPaired, sumBaseQual) ==
    \/ inserted
    \/ /\ readData.paired = FALSE
       /\ (recordPaired \/ sumBaseQual >= readData.sumBaseQual)

\* FragmentReplaces without the test that the stored record is unpaired
FragmentReplacesAnyEntry(inserted, readData, recordPaired, sumBaseQual) ==
    \/ inserted
    \/ recordPaired
    \/ sumBaseQual > readData.sumBaseQual

\* The condition under which the incoming record takes the Fragment Map entry:
\* the entry is new, or it holds an unpaired record and the incoming record is
\* paired or has the higher quality.
FragmentReplaces(inserted, readData, recordPaired, sumBaseQual) ==
    \/ inserted
    \/ /\ readData.paired = FALSE
       /\ (recordPaired \/ sumBaseQual > readData.sumBaseQual)

\* KeepStored without the tie-break on the first mate's index
KeepStoredOnTie(storedPair, sumBaseQual, mateIndex) ==
    ~(storedPair.sumBaseQual < sumBaseQual)

\* keepStored: whether the stored pair is kept against the new pair.
KeepStored(storedPair, sumBaseQual, mateIndex) ==
    IF storedPair.sumBaseQual < sumBaseQual THEN FALSE
    ELSE IF storedPair.sumBaseQual = sumBaseQual
         THEN ~(mateIndex < storedPair.record2Index)
         ELSE TRUE

\* The first entry of myMateMap.equal_range(readPos) whose record has the read
\* name of rec; 0 when there is none.
FindMate(mm, readPos, rec) ==
    LET hits == {i \in 1..Len(mm) :
                    /\ mm[i].key = readPos
                    /\ RecAt(mm[i].data.recordPtr).name = rec.name}
    IN IF hits = {} THEN 0 ELSE CHOOSE i \in hits : \A j \in hits : i <= j

\* myMateMap.insert: after the entries whose key is not greater
MateInsert(mm, key, data) ==
    LET n == Cardinality({i \in 1..Len(mm) : ChromPosLeq(mm[i].key, key)})
    IN SubSeq(mm, 1, n) \o <<[key |-> key, data |-> data]>>
       \o SubSeq(mm, n + 1, Len(mm))

RemoveAt(s, i) == SubSeq(s, 1, i - 1) \o SubSeq(s, i + 1, Len(s))

\* EraseMate with the erase left out
EraseMateForgotten(mm, hit) == mm

\* myMateMap.erase(iter)
EraseMate(mm, hit) == RemoveAt(mm, hit)

\* FragmentPtr storing the record whether it is paired or not
FragmentPtrAlways(recordPaired, ptr) == ptr

\* readData->recordPtr: NULL for a paired record, whose owner is the Mate-Wait
\* Map or the Paired Map
FragmentPtr(recordPaired, ptr) == IF recordPaired THEN 0 ELSE ptr

\* MateIsPrior with < for <=: a mate at the record's own position is not looked for
MateIsPriorStrictly(matePos, readPos) == ChromPosLess(matePos, readPos)

\* "Check to see if the mate is prior to this record": matePos <= readPos
MateIsPrior(matePos, readPos) == ChromPosLeq(matePos, readPos)

\* What checkDups(record, recordCount) does to the maps, which indices it
\* appends to myDupList (dups), which records it releases (freed) and which it
\* hands to handleMissingMate (missing).  fatal: getLibraryID ended the run.
checkDups(ptr, recordCount) ==
    LET rec == RecAt(ptr)
        lib == getLibraryID(rec)
        key == updateKey(rec, lib.id)
        recordPaired == RecordPaired(rec)
        sumBaseQual == getBaseQuality(rec, opts.minQual)
        \* the fragment-map step
        inserted == key \notin DOMAIN fragMap
        readData == IF inserted THEN ReadData(0, 0, FALSE, 0) ELSE fragMap[key]
        replaces == FragmentReplaces(inserted, readData, recordPaired, sumBaseQual)
        fm1 == IF replaces
               THEN Put(fragMap, key,
                        ReadData(sumBaseQual, recordCount, recordPaired,
                                 FragmentPtr(recordPaired, ptr)))
               ELSE fragMap
        dups1 == IF replaces
                 THEN (IF inserted THEN <<>> ELSE <<readData.recordIndex>>)
                 ELSE (IF recordPaired THEN <<>> ELSE <<recordCount>>)
        freed1 == IF replaces
                  THEN (IF inserted THEN <<>> ELSE Released(readData.recordPtr))
                  ELSE (IF recordPaired THEN <<>> ELSE <<ptr>>)
        fwin == IF inserted THEN recordCount ELSE fragWindow[readData.recordIndex]
        base == [fatal |-> FALSE, fragMap |-> fm1, pairedMap |-> pairedMap,
                 mateMap |-> mateMap, dups |-> dups1, freed |-> freed1,
                 missing |-> <<>>, fragWin |-> fwin, pairWin |-> 0, mate |-> 0]
        \* the mate
        readPos == combineChromPos(rec.ref, rec.pos)
        matePos == combineChromPos(rec.mref, rec.mpos)
        hit == IF MateIsPrior(matePos, readPos)
               THEN FindMate(mateMap, readPos, rec) ELSE 0
        mateData == mateMap[hit].data
        mateRecord == mateData.recordPtr
        mateIndex == mateData.recordIndex
        pairQual == sumBaseQual + mateData.sumBaseQual
        mm1 == EraseMate(mateMap, hit)
        \* the completed pair
        mateLib == getLibraryID(RecAt(mateRecord))
        pkey == PairedKey(key, updateKey(RecAt(mateRecord), mateLib.id))
        pairInserted == pkey \notin DOMAIN pairedMap
        storedPair == pairedMap[pkey]
        newPair == PairedData(pairQual, ptr, mateRecord, recordCount, mateIndex)
        keep == KeepStored(storedPair, pairQual, mateIndex)
    IN IF lib.fatal THEN [base EXCEPT !.fatal = TRUE, !.fragMap = fragMap,
                                      !.dups = <<>>, !.freed = <<>>, !.fragWin = 0]
       ELSE IF ~recordPaired THEN base
       ELSE IF hit = 0 /\ ChromPosLeq(readPos, matePos)
            THEN [base EXCEPT !.mateMap =
                     MateInsert(mateMap, matePos,
                                ReadData(sumBaseQual, recordCount, FALSE, ptr))]
       ELSE IF hit = 0 THEN [base EXCEPT !.missing = <<ptr>>]
       ELSE IF mateLib.fatal THEN [base EXCEPT !.fatal = TRUE, !.mateMap = mm1]
       ELSE IF pairInserted
            THEN [base EXCEPT !.mateMap = mm1,
                              !.pairedMap = Put(pairedMap, pkey, newPair),
                              !.pairWin = recordCount, !.mate = mateIndex]
       ELSE IF keep
            THEN [base EXCEPT !.mateMap = mm1,
                              !.dups = dups1 \o <<mateIndex, recordCount>>,
                              !.freed = freed1 \o <<ptr>> \o Released(mateRecord),
                              !.pairWin = pairWindow[storedPair.record1Index],
                              !.mate = mateIndex]
       ELSE [base EXCEPT !.mateMap = mm1,
                         !.pairedMap = Put(pairedMap, pkey, newPair),
                         !.dups = dups1 \o <<storedPair.record1Index,
                                               storedPair.record2Index>>,
                         !.freed = freed1 \o Released(storedPair.record1Ptr)
                                          \o Released(storedPair.record2Ptr),
                         !.pairWin = pairWindow[storedPair.record1Index],
                         !.mate = mateIndex]

----------------------------------------------------------------------------
\* Dedup::execute

\* The order SamFile's coordinate validation accepts: by reference id, records
\* without a reference (-1) last, then by position.
RefRank(ref) == IF ref = -1 THEN 1 ELSE 0

SortedAfter(prev, rec) ==
    \/ RefRank(prev.ref) < RefRank(rec.ref)
    \/ /\ RefRank(prev.ref) = RefRank(rec.ref)
       /\ \/ prev.ref < rec.ref
          \/ prev.ref = rec.ref /\ prev.pos <= rec.pos

\* counts, with one more release counted for every record held by a slot of freed
AddCounts(counts, freed) ==
    [i \in 1..Len(counts) |-> counts[i] + CountIn(freed, i, 1)]

\* SortAscending with the sort left out
SortAscendingForgotten(s) == s

RECURSIVE SortAscending(_)
\* std::sort(myDupList.begin(), myDupList.end(), std::less<uint32_t>())
SortAscending(s) ==
    IF s = <<>> THEN <<>>
    ELSE LET i == CHOOSE i \in 1..Len(s) : \A j \in 1..Len(s) : s[i] <= s[j]
         IN <<s[i]>> \o SortAscending(RemoveAt(s, i))

\* The values myDupList[currentDupIndex] may yield: the element, or, past the
\* end of the vector, whatever the memory holds.
DupListAt(i) ==
    IF i < Len(dupList) THEN {dupList[i + 1]} ELSE 0..Len(file)

NoCleanup == [ran |-> FALSE, hasRecord |-> FALSE, reference |-> 0, coordinate |-> 0,
              fragMap |-> <<>>, pairedMap |-> <<>>, mateMap |-> <<>>]

ThisCleanup(hasRecord, reference, coordinate) ==
    [ran |-> TRUE, hasRecord |-> hasRecord, reference |-> reference,
     coordinate |-> coordinate, fragMap |-> fragMap, pairedMap |-> pairedMap,
     mateMap |-> mateMap]

pass1Vars == <<lastReference, lastCoordinate, fragMap, pairedMap, mateMap, dupList,
               numMissingMate, relCount, missCount, fragWindow, pairWindow, mateOf,
               lastCleanup, buildCount>>

pass2Vars == <<currentDupIndex, moreDups, p2Count, out, fitCount, applied>>

\* Logger::error reports the message and ends the run.
LoggerError == "aborted"

\* AlreadyMarked without --force: a marked record is always fatal
AlreadyMarkedIgnoringForce(rec) == isDuplicate(rec.flag)

\* AlreadyMarked without the test: a marked record is taken like any other
AlreadyMarkedNever(rec) == FALSE

\* SamFlag::isDuplicate(flag) && !myForceFlag
AlreadyMarked(rec) == isDuplicate(rec.flag) /\ ~opts.force

\* mySamPool.getRecord(): a released record, or a new one while the pool may
\* allocate, or NULL (0)
getRecord ==
    IF freeRecs # <<>> THEN Head(freeRecs)
    ELSE IF opts.maxRecs = -1 \/ Len(slotRec) < opts.maxRecs THEN Len(slotRec) + 1
    ELSE 0

\* PoolFailed without the test: the loop goes on with the NULL pointer
PoolFailedNever(ptr) == FALSE

\* recordPtr == NULL
PoolFailed(ptr) == ptr = 0

\* recordPtr = mySamPool.getRecord(); a NULL ends the run with -1.
GetRecord ==
    /\ pc = "get"
    /\ recordPtr' = getRecord
    /\ freeRecs' = IF freeRecs # <<>> THEN Tail(freeRecs) ELSE freeRecs
    /\ slotRec' = IF getRecord > Len(slotRec) THEN Append(slotRec, 0) ELSE slotRec
    /\ pc' = IF PoolFailed(getRecord) THEN "failed" ELSE "read"
    /\ UNCHANGED <<opts, source, file, pass1Vars, pass2Vars>>

\* The records the input file may hold next: in a first run any record that
\* keeps the file sorted, in a second run the next record of the file given.
NextRecords ==
    IF source.run = 2
    THEN (IF Len(file) < Len(source.replay)
          THEN {source.replay[Len(file) + 1]} ELSE {})
    ELSE {rec \in source.records :
             /\ Len(file) < source.limit
             /\ \A i \in 1..Len(file) : file[i] # rec
             /\ file # <<>> => SortedAfter(file[Len(file)], rec)}

\* The input file may end here.
EndOfInput == source.run = 2 => Len(file) = Len(source.replay)

\* samIn.ReadRecord(header, *recordPtr): the next record of the file, or its end.
\* A record that is already marked duplicate is fatal unless --force is given.
ReadRecord ==
    /\ pc = "read"
    /\ \/ \E rec \in NextRecords :
            /\ file' = Append(file, rec)
            /\ slotRec' = [slotRec EXCEPT ![recordPtr] = Len(file) + 1]
            /\ relCount' = Append(relCount, 0)
            /\ missCount' = Append(missCount, 0)
            /\ fragWindow' = Append(fragWindow, 0)
            /\ pairWindow' = Append(pairWindow, 0)
            /\ mateOf' = Append(mateOf, 0)
            /\ buildCount' = Append(buildCount, 0)
            /\ pc' = IF AlreadyMarked(rec) THEN LoggerError ELSE "position"
       \/ /\ EndOfInput
          /\ slotRec' = [slotRec EXCEPT ![recordPtr] = 0]
          /\ pc' = "final"
          /\ UNCHANGED <<file, relCount, missCount, fragWindow, pairWindow, mateOf,
                         buildCount>>
    /\ UNCHANGED <<opts, source, recordPtr, freeRecs, lastReference, lastCoordinate,
                   fragMap, pairedMap, mateMap, dupList, numMissingMate,
                   lastCleanup, pass2Vars>>

\* if (hasPositionChanged(*recordPtr)) cleanupPriorReads(recordPtr);
PositionCheck ==
    /\ pc = "position"
    /\ LET rec == RecAt(recordPtr)
           c == cleanupPriorReads(TRUE, rec.ref, rec.pos)
       IN IF hasPositionChanged(rec)
          THEN /\ lastReference' = rec.ref
               /\ lastCoordinate' = rec.pos
               /\ lastCleanup' = ThisCleanup(TRUE, rec.ref, rec.pos)
               /\ fragMap' = c.fragMap
               /\ pairedMap' = c.pairedMap
               /\ mateMap' = c.mateMap
               /\ freeRecs' = freeRecs \o c.nonDup \o c.missing
               /\ relCount' = AddCounts(relCount, c.nonDup \o c.missing)
               /\ missCount' = AddCounts(missCount, c.missing)
               /\ numMissingMate' = numMissingMate + Len(c.missing)
               /\ buildCount' =
                     AddCounts(buildCount,
                               handleNonDuplicate(c.nonDup
                                                  \o handleMissingMate(c.missing)))
          ELSE /\ lastCleanup' = NoCleanup
               /\ UNCHANGED <<lastReference, lastCoordinate, fragMap, pairedMap,
                              mateMap, freeRecs, relCount, missCount,
                              numMissingMate, buildCount>>
    /\ pc' = "dedup"
    /\ UNCHANGED <<opts, source, file, recordPtr, slotRec, dupList, fragWindow,
                   pairWindow, mateOf, pass2Vars>>

\* An unmapped record is released; a mapped one goes through checkDups.
ProcessRecord ==
    /\ pc = "dedup"
    /\ LET recordCount == Len(file)
           rec == RecAt(recordPtr)
           r == checkDups(recordPtr, recordCount)
           freed == r.freed \o r.missing
       IN IF ~isMapped(rec.flag)
          THEN /\ freeRecs' = Append(freeRecs, recordPtr)
               /\ relCount' = AddCounts(relCount, <<recordPtr>>)
               /\ pc' = "get"
               /\ UNCHANGED <<fragMap, pairedMap, mateMap, dupList, numMissingMate,
                              missCount, fragWindow, pairWindow, mateOf, buildCount>>
          ELSE /\ fragMap' = r.fragMap
               /\ pairedMap' = r.pairedMap
               /\ mateMap' = r.mateMap
               /\ dupList' = dupList \o r.dups
               /\ freeRecs' = freeRecs \o freed
               /\ relCount' = AddCounts(relCount, freed)
               /\ missCount' = AddCounts(missCount, r.missing)
               /\ numMissingMate' = numMissingMate + Len(r.missing)
               /\ buildCount' =
                     AddCounts(buildCount,
                               handleNonDuplicate(handleMissingMate(r.missing)))
               /\ fragWindow' = [fragWindow EXCEPT ![recordCount] = r.fragWin]
               /\ pairWindow' = IF r.mate = 0 THEN pairWindow
                                ELSE [pairWindow EXCEPT ![recordCount] = r.pairWin,
                                                        ![r.mate] = r.pairWin]
               /\ mateOf' = IF r.mate = 0 THEN mateOf
                            ELSE [mateOf EXCEPT ![recordCount] = r.mate,
                                                ![r.mate] = recordCount]
               /\ pc' = IF r.fatal THEN LoggerError ELSE "get"
    /\ UNCHANGED <<opts, source, file, recordPtr, slotRec, lastReference,
                   lastCoordinate, lastCleanup, pass2Vars>>

\* cleanupPriorReads(NULL) once the input is read
FinalCleanup ==
    /\ pc = "final"
    /\ LET c == cleanupPriorReads(FALSE, 0, 0)
       IN /\ lastCleanup' = ThisCleanup(FALSE, 0, 0)
          /\ fragMap' = c.fragMap
          /\ pairedMap' = c.pairedMap
          /\ mateMap' = c.mateMap
          /\ freeRecs' = freeRecs \o c.nonDup \o c.missing
          /\ relCount' = AddCounts(relCount, c.nonDup \o c.missing)
          /\ missCount' = AddCounts(missCount, c.missing)
          /\ numMissingMate' = numMissingMate + Len(c.missing)
          /\ buildCount' =
                AddCounts(buildCount,
                          handleNonDuplicate(c.nonDup \o handleMissingMate(c.missing)))
    /\ pc' = "sort"
    /\ UNCHANGED <<opts, source, file, recordPtr, slotRec, lastReference,
                   lastCoordinate, dupList, fragWindow, pairWindow, mateOf,
                   pass2Vars>>

\* std::sort of myDupList
SortDupList ==
    /\ pc = "sort"
    /\ dupList' = SortAscending(dupList)
    /\ pc' = "open"
    /\ UNCHANGED <<opts, source, file, recordPtr, slotRec, freeRecs, lastReference,
                   lastCoordinate, fragMap, pairedMap, mateMap, numMissingMate,
                   relCount, missCount, fragWindow, pairWindow, mateOf, lastCleanup,
                   buildCount, pass2Vars>>

\* The input is reopened, the output opened, and the cursor set up.
OpenOutput ==
    /\ pc = "open"
    /\ currentDupIndex' = 0
    /\ moreDups' = (dupList # <<>>)
    /\ p2Count' = 0
    /\ out' = <<>>
    /\ fitCount' = IF opts.recab THEN fitCount + 1 ELSE fitCount
    /\ applied' = <<>>
    /\ pc' = "write"
    /\ UNCHANGED <<opts, source, file, recordPtr, slotRec, freeRecs, pass1Vars>>

\* One turn of pass 2's loop.
WriteRecord ==
    /\ pc = "write"
    /\ p2Count < Len(file)
    /\ LET currentIndex == p2Count + 1
           flag == file[currentIndex].flag
       IN \E v \in (IF moreDups THEN DupListAt(currentDupIndex) ELSE {0}) :
            LET foundDup == moreDups /\ currentIndex = v
            IN /\ p2Count' = currentIndex
               /\ currentDupIndex' = IF foundDup THEN currentDupIndex + 1
                                     ELSE currentDupIndex
               /\ out' = IF foundDup
                         THEN (IF opts.rmDups THEN out
                               ELSE Append(out, <<currentIndex, SetDuplicateBit(flag)>>))
                         ELSE Append(out, <<currentIndex,
                                            IF opts.force THEN ClearDuplicateBit(flag)
                                            ELSE flag>>)
               /\ applied' = IF opts.recab THEN Append(applied, currentIndex)
                             ELSE applied
    /\ UNCHANGED <<opts, source, pc, file, recordPtr, slotRec, freeRecs, pass1Vars,
                   moreDups, fitCount>>

\* The end of the input in pass 2: the files are closed.
Finish ==
    /\ pc = "write"
    /\ p2Count = Len(file)
    /\ pc' = "done"
    /\ UNCHANGED <<opts, source, file, recordPtr, slotRec, freeRecs, pass1Vars,
                   pass2Vars>>

\* Dedup::~Dedup, once execute has returned: the records the maps still hold
\* are released, without handleNonDuplicate or handleMissingMate, and the maps
\* are cleared.
Destroy ==
    /\ pc \in {"done", "failed"}
    /\ LET fragFreed == Concat(FragKeysInOrder(DOMAIN fragMap),
                               [k \in DOMAIN fragMap |->
                                   Released(fragMap[k].recordPtr)], 1)
           pairFreed == Concat(PairKeysInOrder(DOMAIN pairedMap),
                               [k \in DOMAIN pairedMap |->
                                   Released(pairedMap[k].record1Ptr)
                                   \o Released(pairedMap[k].record2Ptr)], 1)
           mateFreed == Concat([i \in 1..Len(mateMap) |-> i],
                               [i \in 1..Len(mateMap) |->
                                   Released(mateMap[i].data.recordPtr)], 1)
           freed == fragFreed \o pairFreed \o mateFreed
       IN /\ freeRecs' = freeRecs \o freed
          /\ relCount' = AddCounts(relCount, freed)
    /\ fragMap' = <<>>
    /\ pairedMap' = <<>>
    /\ mateMap' = <<>>
    /\ pc' = IF pc = "done" THEN "exited" ELSE "exitedFailed"
    /\ UNCHANGED <<opts, source, file, recordPtr, slotRec, lastReference,
                   lastCoordinate, dupList, numMissingMate, missCount, fragWindow,
                   pairWindow, mateOf, lastCleanup, buildCount, pass2Vars>>

Next ==
    \/ GetRecord
    \/ ReadRecord
    \/ PositionCheck
    \/ ProcessRecord
    \/ FinalCleanup
    \/ SortDupList
    \/ OpenOutput
    \/ WriteRecord
    \/ Finish
    \/ Destroy

\* The output of the run as an input file: the records written, with the flags
\* they were written with.
WrittenFile == [j \in 1..Len(out) |-> [file[out[j][1]] EXCEPT !.flag = out[j][2]]]

\* A second run of the program, a new process started when the first has
\* ended: on the same input with the same options (again = "same"), or with
\* --force on the output of the first (again = "marked").
Rerun ==
    /\ pc = "exited"
    /\ source.run = 1
    /\ source.again # "no"
    /\ source' = [source EXCEPT
                     !.run = 2,
                     !.replay = IF source.again = "marked" THEN WrittenFile ELSE file,
                     !.firstDupList = dupList]
    /\ opts' = IF source.again = "marked" THEN [opts EXCEPT !.force = TRUE] ELSE opts
    /\ pc' = "get"
    /\ file' = <<>>
    /\ recordPtr' = 0
    /\ slotRec' = <<>>
    /\ freeRecs' = <<>>
    /\ lastReference' = -1
    /\ lastCoordinate' = -1
    /\ fragMap' = <<>>
    /\ pairedMap' = <<>>
    /\ mateMap' = <<>>
    /\ dupList' = <<>>
    /\ numMissingMate' = 0
    /\ currentDupIndex' = 0
    /\ moreDups' = FALSE
    /\ p2Count' = 0
    /\ out' = <<>>
    /\ relCount' = <<>>
    /\ missCount' = <<>>
    /\ fragWindow' = <<>>
    /\ pairWindow' = <<>>
    /\ mateOf' = <<>>
    /\ lastCleanup' = NoCleanup
    /\ buildCount' = <<>>
    /\ fitCount' = 0
    /\ applied' = <<>>

\* Two runs in a row.
NextTwice ==
    \/ Next
    \/ Rerun

\* The state once the arguments are processed and the header is read.
InitAgain(optionSet, records, limit, again) ==
    /\ opts \in optionSet
    /\ source = [records |-> records, limit |-> limit, again |-> again, run |-> 1,
                 replay |-> <<>>, firstDupList |-> <<>>]
    /\ pc = "get"
    /\ file = <<>>
    /\ recordPtr = 0
    /\ slotRec = <<>>
    /\ freeRecs = <<>>
    /\ lastReference = -1
    /\ lastCoordinate = -1
    /\ fragMap = <<>>
    /\ pairedMap = <<>>
    /\ mateMap = <<>>
    /\ dupList = <<>>
    /\ numMissingMate = 0
    /\ currentDupIndex = 0
    /\ moreDups = FALSE
    /\ p2Count = 0
    /\ out = <<>>
    /\ relCount = <<>>
    /\ missCount = <<>>
    /\ fragWindow = <<>>
    /\ pairWindow = <<>>
    /\ mateOf = <<>>
    /\ lastCleanup = NoCleanup
    /\ buildCount = <<>>
    /\ fitCount = 0
    /\ applied = <<>>

\* The state at the start of a single run.
InitWith(optionSet, records, limit) == InitAgain(optionSet, records, limit, "no")

----------------------------------------------------------------------------
\* The inputs explored.

\* A command line; the header declares at most one library.
Options(oneChrom, force, rmDups, minQual) ==
    [oneChrom |-> oneChrom, force |-> force, rmDups |-> rmDups, recab |-> FALSE,
     minQual |-> minQual, maxRecs |-> -1, numLibraries |-> 0, rgidLibMap |-> <<>>]

\* Single-end reads, pairs with both mates, pairs with a mate that never
\* comes, reads far enough downstream to close the window, a second
\* reference and a read without a reference.
MixedReads ==
    { Rec("u1", 0, 0, 100, -1, -1, 0, <<20>>, ""),
      Rec("u2", 0, 0, 102, -1, -1, 2, <<30>>, ""),
      Rec("u3", 0, 0, 100, -1, -1, 0, <<20>>, ""),
      Rec("a", 99, 0, 100, 0, 300, 0, <<20>>, ""),
      Rec("a", 147, 0, 300, 0, 100, 0, <<20>>, ""),
      Rec("b", 99, 0, 100, 0, 300, 0, <<20>>, ""),
      Rec("b", 147, 0, 300, 0, 100, 0, <<30>>, ""),
      Rec("m", 83, 0, 100, 0, 150, 0, <<20>>, ""),
      Rec("n", 147, 0, 300, 0, 100, 0, <<20>>, ""),
      Rec("f", 0, 0, 2000, -1, -1, 0, <<20>>, ""),
      Rec("c", 16, 1, 50, -1, -1, 0, <<20>>, ""),
      Rec("x", 4, -1, -1, -1, -1, 0, <<20>>, "") }

\* Single-end reads at one key with quality sums 10, 25, 10, 25 and 30, one of
\* them downstream with its start clipped back to the key, one on the other
\* strand, one whose mate is unmapped, one whose mate is mapped, and one that
\* comes back to the key after the window has closed.
FragmentReads ==
    { Rec("r1", 0, 0, 100, -1, -1, 0, <<10>>, ""),
      Rec("r2", 0, 0, 100, -1, -1, 0, <<25>>, ""),
      Rec("r3", 0, 0, 100, -1, -1, 0, <<10>>, ""),
      Rec("r4", 0, 0, 100, -1, -1, 0, <<25>>, ""),
      Rec("r5", 0, 0, 103, -1, -1, 3, <<10, 20>>, ""),
      Rec("rv", 16, 0, 100, -1, -1, 0, <<10>>, ""),
      Rec("rs", 0, 0, 100, -1, -1, 0, <<9>>, ""),
      Rec("pm", 73, 0, 100, 0, 100, 0, <<25>>, ""),
      Rec("pp", 99, 0, 100, 0, 400, 0, <<10>>, ""),
      Rec("w", 0, 0, 2000, -1, -1, 1900, <<10>>, "") }

\* Four pairs; three of them share one PairedKey, with combined quality sums
\* 40, 40 and 45.
PairReads ==
    { Rec("a", 99, 0, 100, 0, 300, 0, <<20>>, ""),
      Rec("a", 147, 0, 300, 0, 100, 50, <<20>>, ""),
      Rec("b", 99, 0, 100, 0, 300, 0, <<20>>, ""),
      Rec("b", 147, 0, 300, 0, 100, 50, <<20>>, ""),
      Rec("c", 99, 0, 100, 0, 300, 0, <<25>>, ""),
      Rec("c", 147, 0, 300, 0, 100, 50, <<20>>, ""),
      Rec("d", 99, 0, 101, 0, 300, 0, <<20>>, ""),
      Rec("d", 147, 0, 300, 0, 101, 50, <<20>>, "") }

\* Reads spread over more than CLIP_OFFSET bases, so that a cleanup removes
\* part of each map.
WindowReads ==
    { Rec("u", 0, 0, 100, -1, -1, 0, <<20>>, ""),
      Rec("a", 99, 0, 100, 0, 300, 0, <<20>>, ""),
      Rec("a", 147, 0, 300, 0, 100, 0, <<20>>, ""),
      Rec("g", 0, 0, 2000, -1, -1, 1900, <<20>>, ""),
      Rec("p", 99, 0, 2000, 0, 2200, 0, <<20>>, ""),
      Rec("p", 147, 0, 2200, 0, 2000, 0, <<20>>, ""),
      Rec("q", 99, 0, 2000, 0, 2600, 0, <<20>>, ""),
      Rec("h", 0, 0, 2500, -1, -1, 0, <<20>>, ""),
      Rec("k", 0, 0, 3300, -1, -1, 0, <<20>>, "") }

\* Reads that come already marked duplicate among reads that do not: unpaired
\* reads at one key, one on the other strand, one mate of a pair, one unmapped;
\* and two unmapped reads that are not marked, one of them placed downstream.
MarkedReads ==
    { Rec("e1", 0, 0, 100, -1, -1, 0, <<20>>, ""),
      Rec("e2", 0, 0, 100, -1, -1, 0, <<30>>, ""),
      Rec("d1", 1024, 0, 100, -1, -1, 0, <<20>>, ""),
      Rec("d2", 1024, 0, 100, -1, -1, 0, <<40>>, ""),
      Rec("d3", 1040, 0, 100, -1, -1, 0, <<20>>, ""),
      Rec("p", 99, 0, 100, 0, 300, 0, <<20>>, ""),
      Rec("p", 1171, 0, 300, 0, 100, 0, <<20>>, ""),
      Rec("f", 0, 0, 2000, -1, -1, 0, <<20>>, ""),
      Rec("dx", 1028, -1, -1, -1, -1, 0, <<20>>, ""),
      Rec("up", 4, 0, 5000, -1, -1, 0, <<20>>, ""),
      Rec("ux", 4, -1, -1, -1, -1, 0, <<20>>, "") }

\* Paired reads whose mate is on another chromosome, at the key of two unpaired
\* reads and of the first mate of an ordinary pair; the mate of one of them on
\* chromosome 1.
OneChromReads ==
    { Rec("x1", 97, 0, 100, 1, 50, 0, <<20>>, ""),
      Rec("x2", 97, 0, 100, 1, 60, 0, <<30>>, ""),
      Rec("u1", 0, 0, 100, -1, -1, 0, <<25>>, ""),
      Rec("u2", 0, 0, 100, -1, -1, 0, <<20>>, ""),
      Rec("a", 99, 0, 100, 0, 300, 0, <<20>>, ""),
      Rec("a", 147, 0, 300, 0, 100, 0, <<20>>, ""),
      Rec("f", 0, 0, 2000, -1, -1, 0, <<20>>, ""),
      Rec("x1", 145, 1, 50, 0, 100, 0, <<20>>, "") }

\* A header line @RG with its ID and LB tags.
RG(ID, LB) == [ID |-> ID, LB |-> LB]

\* Headers without read groups, with two read groups of one library, and with
\* two read groups of two libraries.
Headers ==
    { <<>>,
      <<RG("A", "L1"), RG("B", "L1")>>,
      <<RG("A", "L1"), RG("B", "L2")>> }

\* The options of a run on an input with the given header.
WithHeader(options, header) ==
    LET m == buildReadGroupLibraryMap(header, 1, <<>>, <<>>, 0)
    IN [options EXCEPT !.numLibraries = m.numLibraries, !.rgidLibMap = m.rgidLibMap]

\* Reads of read groups A and B at one key, a read of a read group the header
\* does not have, reads without an RG tag (one of them unmapped), and a pair.
LibraryReads ==
    { Rec("l1", 0, 0, 100, -1, -1, 0, <<20>>, "A"),
      Rec("l2", 0, 0, 100, -1, -1, 0, <<30>>, "B"),
      Rec("l3", 0, 0, 100, -1, -1, 0, <<30>>, "A"),
      Rec("z", 0, 0, 100, -1, -1, 0, <<20>>, "Z"),
      Rec("n", 0, 0, 100, -1, -1, 0, <<25>>, ""),
      Rec("p", 99, 0, 100, 0, 300, 0, <<20>>, "A"),
      Rec("p", 147, 0, 300, 0, 100, 0, <<20>>, "A"),
      Rec("f", 0, 0, 2000, -1, -1, 0, <<20>>, "B"),
      Rec("xu", 4, -1, -1, -1, -1, 0, <<20>>, "") }

\* Unpaired reads at one key with bases below, at and above the default floor
\* of 15, the first mate of a pair, and a read downstream.
QualityReads ==
    { Rec("q1", 0, 0, 100, -1, -1, 0, <<15, 20>>, ""),
      Rec("q2", 0, 0, 100, -1, -1, 0, <<30>>, ""),
      Rec("q3", 0, 0, 100, -1, -1, 0, <<14, 20>>, ""),
      Rec("q4", 0, 0, 100, -1, -1, 0, <<16, 15>>, ""),
      Rec("q5", 16, 0, 100, -1, -1, 0, <<15, 15>>, ""),
      Rec("p", 99, 0, 100, 0, 300, 0, <<15, 30>>, ""),
      Rec("f", 0, 0, 2000, -1, -1, 0, <<15>>, "") }

\* Unmapped reads placed at their mate's position, at the position of other
\* reads and far downstream of them, and an unmapped read without a position,
\* among an unpaired read, a pair, a read that waits for a mate that does not
\* come, and a read whose mate is unmapped.
UnmappedReads ==
    { Rec("u", 0, 0, 100, -1, -1, 0, <<20>>, ""),
      Rec("a", 99, 0, 100, 0, 300, 0, <<20>>, ""),
      Rec("a", 147, 0, 300, 0, 100, 0, <<20>>, ""),
      Rec("m", 73, 0, 100, 0, 100, 0, <<20>>, ""),
      Rec("m", 133, 0, 100, 0, 100, 0, <<20>>, ""),
      Rec("w", 99, 0, 200, 0, 250, 0, <<20>>, ""),
      Rec("n", 133, 0, 2500, 0, 2500, 0, <<20>>, ""),
      Rec("f", 0, 0, 2000, -1, -1, 0, <<20>>, ""),
      Rec("x", 4, -1, -1, -1, -1, 0, <<20>>, "") }

\* Unpaired reads at one key, two pairs at one pair of keys, a read whose mate
\* does not come, a read downstream and an unmapped read.
TwiceReads ==
    { Rec("u1", 0, 0, 100, -1, -1, 0, <<20>>, ""),
      Rec("u2", 0, 0, 102, -1, -1, 2, <<30>>, ""),
      Rec("a", 99, 0, 100, 0, 300, 0, <<20>>, ""),
      Rec("a", 147, 0, 300, 0, 100, 0, <<20>>, ""),
      Rec("b", 99, 0, 100, 0, 300, 0, <<20>>, ""),
      Rec("b", 147, 0, 300, 0, 100, 0, <<30>>, ""),
      Rec("m", 83, 0, 100, 0, 150, 0, <<20>>, ""),
      Rec("f", 0, 0, 2000, -1, -1, 0, <<20>>, ""),
      Rec("x", 4, -1, -1, -1, -1, 0, <<20>>, "") }

\* Two pairs at one pair of keys, a pair whose mates are at one position, a
\* read whose mate does not come, a read whose mate should have come, and a
\* read downstream.
MateReads ==
    { Rec("a", 99, 0, 100, 0, 300, 0, <<20>>, ""),
      Rec("a", 147, 0, 300, 0, 100, 0, <<30>>, ""),
      Rec("b", 99, 0, 100, 0, 300, 0, <<20>>, ""),
      Rec("b", 147, 0, 300, 0, 100, 0, <<20>>, ""),
      Rec("e", 99, 0, 200, 0, 200, 0, <<20>>, ""),
      Rec("e", 147, 0, 200, 0, 200, 0, <<25>>, ""),
      Rec("w", 99, 0, 100, 0, 250, 0, <<20>>, ""),
      Rec("l", 147, 0, 300, 0, 100, 0, <<20>>, ""),
      Rec("f", 0, 0, 2000, -1, -1, 0, <<20>>, "") }

Init == InitWith({Options(FALSE, FALSE, rm, DEFAULT_MIN_QUAL) : rm \in BOOLEAN},
                 MixedReads, MaxRecords)

Spec == Init /\ [][Next]_vars

InitFragment == InitWith({Options(FALSE, FALSE, FALSE, 5)}, FragmentReads, MaxRecords)

SpecFragment == InitFragment /\ [][Next]_vars

InitPair == InitWith({Options(FALSE, FALSE, FALSE, DEFAULT_MIN_QUAL)}, PairReads,
                     MaxPairRecords)

SpecPair == InitPair /\ [][Next]_vars

InitWindow == InitWith({Options(FALSE, FALSE, FALSE, DEFAULT_MIN_QUAL)}, WindowReads,
                       MaxRecords)

SpecWindow == InitWindow /\ [][Next]_vars

InitMarked == InitWith({Options(FALSE, f, FALSE, DEFAULT_MIN_QUAL) : f \in BOOLEAN},
                       MarkedReads, MaxRecords)

SpecMarked == InitMarked /\ [][Next]_vars

InitOneChrom == InitWith({Options(TRUE, FALSE, FALSE, DEFAULT_MIN_QUAL)},
                         OneChromReads, MaxRecords)

SpecOneChrom == InitOneChrom /\ [][Next]_vars

InitLibrary ==
    InitWith({WithHeader(Options(FALSE, FALSE, FALSE, DEFAULT_MIN_QUAL), h) :
                 h \in {h \in Headers :
                           ~buildReadGroupLibraryMap(h, 1, <<>>, <<>>, 0).fatal}},
             LibraryReads, MaxRecords)

SpecLibrary == InitLibrary /\ [][Next]_vars

InitQuality == InitWith({Options(FALSE, FALSE, FALSE, DEFAULT_MIN_QUAL)},
                        QualityReads, MaxRecords)

SpecQuality == InitQuality /\ [][Next]_vars

InitUnmapped == InitWith({Options(FALSE, FALSE, FALSE, DEFAULT_MIN_QUAL)},
                         UnmappedReads, MaxRecords)

SpecUnmapped == InitUnmapped /\ [][Next]_vars

\* Deduping reads that wait for their mates.
InitMate == InitWith({Options(FALSE, FALSE, FALSE, DEFAULT_MIN_QUAL)}, MateReads,
                     MaxRecords)

SpecMate == InitMate /\ [][Next]_vars

\* A run, and a second run on the same input.
InitTwice == InitAgain({Options(FALSE, FALSE, FALSE, DEFAULT_MIN_QUAL)}, TwiceReads,
                       MaxRecords, "same")

SpecTwice == InitTwice /\ [][NextTwice]_vars

\* A run that marks, and a second run with --force on its output.
InitRemark == InitAgain({Options(FALSE, FALSE, FALSE, DEFAULT_MIN_QUAL)}, TwiceReads,
                        MaxRecords, "marked")

SpecRemark == InitRemark /\ [][NextTwice]_vars

\* Deduping with and without recalibration.
InitRecab ==
    InitWith({[Options(FALSE, FALSE, FALSE, DEFAULT_MIN_QUAL) EXCEPT !.recab = r] :
                 r \in BOOLEAN},
             MixedReads, MaxRecords)

SpecRecab == InitRecab /\ [][Next]_vars

\* A pool that holds at most n records.
InitPool ==
    InitWith({[Options(FALSE, FALSE, FALSE, DEFAULT_MIN_QUAL) EXCEPT !.maxRecs = n] :
                 n \in 1..MaxPoolRecords},
             MixedReads, MaxRecords)

SpecPool == InitPool /\ [][Next]_vars

----------------------------------------------------------------------------
\* Properties.

\* pass 1 is over: the unbounded cleanup has run
Pass1Over == pc \in {"sort", "open", "write", "done", "exited"}

InDupList(i) == \E j \in 1..Len(dupList) : dupList[j] = i

\* the number of times x occurs in sequence s
Occurrences(s, x) == Cardinality({j \in 1..Len(s) : s[j] = x})

\* C3: after cleanupPriorReads(NULL) at the end of pass 1 the Fragment Map, the
\* Paired Map and the Mate-Wait Map are all empty.
MapsDrained ==
    Pass1Over => /\ DOMAIN fragMap = {}
                 /\ DOMAIN pairedMap = {}
                 /\ Len(mateMap) = 0

\* The final cleanup found entries in all three maps.
MapsDrainedWitness ==
    /\ pc = "sort"
    /\ lastCleanup.ran /\ ~lastCleanup.hasRecord
    /\ DOMAIN lastCleanup.fragMap # {}
    /\ DOMAIN lastCleanup.pairedMap # {}
    /\ Len(lastCleanup.mateMap) > 0

\* the pool slots held by the reader, the three maps and the pool's free queue
InFlight == IF pc \in {"read", "position", "dedup"} THEN <<recordPtr>> ELSE <<>>

FragHeld(s) == Cardinality({k \in DOMAIN fragMap : fragMap[k].recordPtr = s})

PairHeld(s) ==
    Cardinality({k \in DOMAIN pairedMap : pairedMap[k].record1Ptr = s})
    + Cardinality({k \in DOMAIN pairedMap : pairedMap[k].record2Ptr = s})

MateHeld(s) == Cardinality({i \in 1..Len(mateMap) : mateMap[i].data.recordPtr = s})

Holders(s) ==
    Occurrences(InFlight, s) + FragHeld(s) + PairHeld(s) + MateHeld(s)
    + Occurrences(freeRecs, s)

\* C8: every pooled record has at most one holder (the reader's in-flight record,
\* a Fragment Map entry, a Mate-Wait entry, a slot of a Paired Map entry) or is
\* free in the pool once; no record is released twice.
SingleOwner ==
    /\ \A s \in 1..Len(slotRec) : Holders(s) <= 1
    /\ \A i \in 1..Len(relCount) : relCount[i] <= 1

\* A pair is stored while another record waits for its mate and a third has
\* been released.
SingleOwnerWitness ==
    /\ DOMAIN pairedMap # {}
    /\ Len(mateMap) > 0
    /\ freeRecs # <<>>

\* record i went through checkDups as a paired record with a mapped mate
PairedRecord(i) == isMapped(file[i].flag) /\ RecordPaired(file[i])

RECURSIVE SumSeq(_, _)
SumSeq(s, i) == IF i > Len(s) THEN 0 ELSE s[i] + SumSeq(s, i + 1)

\* C9: a paired record with a mapped mate that never becomes part of a completed
\* pair is counted as a missing mate exactly once, is released exactly once and
\* is never in the Duplicate List; no other record is counted.
MissingMateOnce ==
    /\ numMissingMate = SumSeq(missCount, 1)
    /\ \A i \in 1..Len(missCount) :
          /\ missCount[i] <= 1
          /\ missCount[i] = 1 =>
                /\ PairedRecord(i)
                /\ mateOf[i] = 0
                /\ relCount[i] = 1
                /\ ~InDupList(i)
    /\ Pass1Over =>
          \A i \in 1..Len(file) :
             (PairedRecord(i) /\ mateOf[i] = 0) => missCount[i] = 1

\* Pass 1 is still reading; one record found its mate position behind it and no
\* mate waiting, another waited until cleanup passed its mate's position.
MissingMateOnceWitness ==
    /\ pc = "get"
    /\ numMissingMate = 2
    /\ \E i, j \in 1..Len(file) :
          /\ missCount[i] = 1 /\ missCount[j] = 1
          /\ file[i].mpos < file[i].pos
          /\ file[j].mpos > file[j].pos
          /\ mateOf[i] = 0 /\ mateOf[j] = 0


\* the quality sum checkDups computes for record i
QualityOf(i) == getBaseQuality(file[i], opts.minQual)

\* the records compared in the Fragment Map entry that record w opened
FragmentWindow(w) == {i \in 1..Len(file) : fragWindow[i] = w}

\* b is the record of M with the highest quality sum, the earliest among equals
BestRead(b, M) ==
    \A i \in M : QualityOf(b) > QualityOf(i) \/ (QualityOf(b) = QualityOf(i) /\ b <= i)

\* C1: among the unpaired records compared at one Fragment Map entry between two
\* cleanups, with no paired record at the key, exactly the one with the highest
\* quality sum (the earliest among equals) is absent from the Duplicate List;
\* every other one is in it, once.
BestFragmentSurvives ==
    \A w \in 1..Len(file) :
       (fragWindow[w] = w /\ \A i \in FragmentWindow(w) : ~PairedRecord(i)) =>
          \A i \in FragmentWindow(w) :
             IF BestRead(i, FragmentWindow(w))
             THEN ~InDupList(i)
             ELSE Occurrences(dupList, i) = 1

\* Three unpaired reads at one key with quality sums 10, 25, 10 have been
\* processed: the Duplicate List holds the first and the third.
BestFragmentSurvivesWitness ==
    /\ pc = "get"
    /\ Len(file) = 3
    /\ \A i \in 1..3 : fragWindow[i] = 1 /\ ~PairedRecord(i)
    /\ QualityOf(1) = 10 /\ QualityOf(2) = 25 /\ QualityOf(3) = 10
    /\ dupList = <<1, 3>>

\* the completed pairs compared in the Paired Map entry that record w opened,
\* each named by its second-seen record
PairWindow(w) ==
    {i \in 1..Len(file) : pairWindow[i] = w /\ mateOf[i] # 0 /\ mateOf[i] < i}

PairQuality(i) == QualityOf(i) + QualityOf(mateOf[i])

\* b is the pair of P with the highest combined quality sum, the one whose
\* first-seen mate is earliest among equals
BestPair(b, P) ==
    \A i \in P : \/ PairQuality(b) > PairQuality(i)
                 \/ PairQuality(b) = PairQuality(i) /\ mateOf[b] <= mateOf[i]

\* C2: among the completed pairs compared at one Paired Map entry while it is
\* open, the pair with the highest combined quality sum (among equals, the one
\* whose first-seen mate has the smallest index) is the only one out of the
\* Duplicate List; both indices of every other pair are in it and both of its
\* records have been released.
BestPairSurvives ==
    \A w \in 1..Len(file) :
       pairWindow[w] = w =>
          \A i \in PairWindow(w) :
             IF BestPair(i, PairWindow(w))
             THEN ~InDupList(i) /\ ~InDupList(mateOf[i])
             ELSE /\ Occurrences(dupList, i) = 1
                  /\ Occurrences(dupList, mateOf[i]) = 1
                  /\ relCount[i] = 1
                  /\ relCount[mateOf[i]] = 1

\* Two pairs of combined quality 40 at one PairedKey; the pair whose first mate
\* is record 1 completes last and survives, the pair of records 2 and 3 is in
\* the Duplicate List.
BestPairSurvivesWitness ==
    /\ pc = "get"
    /\ Len(file) = 4
    /\ mateOf = <<4, 3, 2, 1>>
    /\ \A i \in 1..4 : pairWindow[i] = 3
    /\ PairQuality(3) = 40 /\ PairQuality(4) = 40
    /\ InDupList(2) /\ InDupList(3) /\ ~InDupList(1) /\ ~InDupList(4)

\* C7: cleanupPriorReads with a boundary record removes from each map exactly
\* the entries strictly below the cutoff derived from that record and leaves the
\* entries at or after the cutoff in place, unchanged.
CleanupBelowCutoff ==
    (pc = "dedup" /\ lastCleanup.ran /\ lastCleanup.hasRecord) =>
       LET old == lastCleanup
           cutoff == DupKey(old.reference, old.coordinate - CLIP_OFFSET, FALSE, 0)
           pairCutoff == PairedKey(emptyKey, cutoff)
           mateCutoff == combineChromPos(old.reference, old.coordinate)
           fragKept == {k \in DOMAIN old.fragMap : ~DupKeyLess(k, cutoff)}
           pairKept == {k \in DOMAIN old.pairedMap : ~PairedKeyLess(k, pairCutoff)}
           mateKept(e) == ~ChromPosLess(e.key, mateCutoff)
       IN /\ DOMAIN fragMap = fragKept
          /\ \A k \in fragKept : fragMap[k] = old.fragMap[k]
          /\ DOMAIN pairedMap = pairKept
          /\ \A k \in pairKept : pairedMap[k] = old.pairedMap[k]
          /\ mateMap = SelectSeq(old.mateMap, mateKept)

\* A cleanup has just removed part of the Fragment Map and part of the
\* Mate-Wait Map and left the rest.
CleanupBelowCutoffWitness ==
    /\ pc = "dedup" /\ lastCleanup.ran /\ lastCleanup.hasRecord
    /\ DOMAIN fragMap # {}
    /\ DOMAIN fragMap # DOMAIN lastCleanup.fragMap
    /\ Len(mateMap) > 0
    /\ Len(mateMap) < Len(lastCleanup.mateMap)


\* the record checkDups is about to process, its key and its quality sum
Incoming == RecAt(recordPtr)

IncomingKey == updateKey(Incoming, getLibraryID(Incoming).id)

\* checkDups is about to find an entry at the incoming record's key whose stored
\* quality sum the incoming record exceeds
ExceedsStored ==
    /\ pc = "dedup"
    /\ isMapped(Incoming.flag)
    /\ IncomingKey \in DOMAIN fragMap
    /\ getBaseQuality(Incoming, opts.minQual) > fragMap[IncomingKey].sumBaseQual

\* the step stores the incoming record in the entry and appends the index of the
\* record it held to the Duplicate List
Supersedes ==
    /\ fragMap'[IncomingKey].recordIndex = Len(file)
    /\ Len(dupList') > Len(dupList)
    /\ dupList'[Len(dupList) + 1] = fragMap[IncomingKey].recordIndex

\* C10 as stated: an incoming record whose quality sum exceeds the stored one
\* replaces the entry and the superseded index is appended to the Duplicate
\* List, whether the entry is marked paired or unpaired.
HigherQualityReplacesAnyEntry ==
    [][ExceedsStored => Supersedes]_vars

\* C10, amended: an incoming record whose quality sum exceeds the one stored in an
\* existing unpaired entry replaces the entry, and the superseded record's index
\* is appended to the Duplicate List and its record released; an entry marked
\* paired is left as it is.
HigherQualityReplacesUnpaired ==
    [][ExceedsStored =>
          IF fragMap[IncomingKey].paired
          THEN fragMap'[IncomingKey] = fragMap[IncomingKey]
          ELSE /\ Supersedes
               /\ relCount'[fragMap[IncomingKey].recordIndex] = 1]_vars

\* An unpaired record of quality sum 10 has been superseded by an unpaired record
\* of quality sum 25 that now holds the entry.
HigherQualityReplacesUnpairedWitness ==
    /\ pc = "get"
    /\ Len(file) = 2
    /\ ~PairedRecord(1) /\ ~PairedRecord(2)
    /\ QualityOf(1) = 10 /\ QualityOf(2) = 25
    /\ dupList = <<1>>
    /\ \E k \in DOMAIN fragMap : fragMap[k].recordIndex = 2 /\ ~fragMap[k].paired


\* the output records that carry the duplicate bit
MarkedInOutput == {j \in 1..Len(out) : isDuplicate(out[j][2])}

\* C4: the size of the Duplicate List equals the number of records pass 2 marks
\* with the duplicate flag when not removing, and the number of input records
\* absent from the output when removing; the cursor matches every index of the
\* list.
Conservation ==
    pc = "done" =>
       /\ ~opts.rmDups => Cardinality(MarkedInOutput) = Len(dupList)
       /\ opts.rmDups => Len(file) - Len(out) = Len(dupList)
       /\ currentDupIndex = Len(dupList)

\* C5: pass 2 sets the duplicate bit of a record whose index is in the Duplicate
\* List; it clears the bit of any other record in force mode and leaves the flag
\* of any other record unchanged otherwise; it changes no other bit.
Pass2Flags ==
    pc \in {"write", "done"} =>
       \A j \in 1..Len(out) :
          LET i == out[j][1]
              written == out[j][2]
              read == file[i].flag
          IN /\ ClearDuplicateBit(written) = ClearDuplicateBit(read)
             /\ IF InDupList(i) THEN isDuplicate(written)
                ELSE IF opts.force THEN ~isDuplicate(written)
                ELSE written = read

\* C6: pass 2 writes the input records in their order: all of them when not
\* removing, all but those whose index is in the Duplicate List when removing.
OutputInInputOrder ==
    pc = "done" =>
       LET kept == IF opts.rmDups
                   THEN SelectSeq([i \in 1..Len(file) |-> i], LAMBDA i : ~InDupList(i))
                   ELSE [i \in 1..Len(file) |-> i]
       IN [j \in 1..Len(out) |-> out[j][1]] = kept

\* index i is appended to the Duplicate List by the step
AppendedNow(i) ==
    \E j \in (Len(dupList) + 1)..Len(dupList') : dupList'[j] = i

\* the pooled record of index i is released by the step
ReleasedNow(i) == relCount'[i] = relCount[i] + 1

\* C11: whenever a step of pass 1 overwrites the record index stored in an
\* existing Fragment Map entry, or the record indices stored in an existing Paired
\* Map entry, the index of the previous occupant (both indices for a pair) is
\* appended to the Duplicate List in that step and its records are released.
NoSilentOverwrite ==
    [][/\ \A k \in DOMAIN fragMap \cap DOMAIN fragMap' :
             fragMap'[k].recordIndex # fragMap[k].recordIndex =>
                /\ AppendedNow(fragMap[k].recordIndex)
                /\ ReleasedNow(fragMap[k].recordIndex)
       /\ \A k \in DOMAIN pairedMap \cap DOMAIN pairedMap' :
             <<pairedMap'[k].record1Index, pairedMap'[k].record2Index>>
                # <<pairedMap[k].record1Index, pairedMap[k].record2Index>> =>
                /\ AppendedNow(pairedMap[k].record1Index)
                /\ AppendedNow(pairedMap[k].record2Index)
                /\ ReleasedNow(pairedMap[k].record1Index)
                /\ ReleasedNow(pairedMap[k].record2Index)]_vars

\* An unpaired read was superseded in its Fragment Map entry by a paired read,
\* and the pair of records 2 and 4 was superseded in its Paired Map entry by
\* the pair of records 3 and 5: all three indices are in the Duplicate List.
NoSilentOverwriteWitness ==
    /\ pc = "get"
    /\ Len(file) = 5
    /\ ~PairedRecord(1)
    /\ mateOf = <<0, 4, 5, 2, 3>>
    /\ dupList = <<1, 4, 2>>
    /\ relCount = <<1, 1, 0, 1, 0>>
    /\ \E k \in DOMAIN pairedMap : pairedMap[k].record1Index = 5
    /\ \E k \in DOMAIN fragMap : fragMap[k].recordIndex = 2 /\ fragMap[k].paired

\* the input read so far holds a record that carries the duplicate flag, and
\* force mode is off
MarkedInput == ~opts.force /\ \E i \in 1..Len(file) : isDuplicate(file[i].flag)

\* C12: if an input record carries the duplicate flag and force mode is off, the
\* run aborts and no record is ever written to the output: the run never reaches
\* the opening of the output.
MarkedInputNoOutput ==
    MarkedInput => pc = LoggerError /\ out = <<>>

\* The run has aborted on a marked record that came after two others.
MarkedInputNoOutputWitness ==
    /\ MarkedInput
    /\ pc = LoggerError
    /\ Len(file) = 3
    /\ isDuplicate(file[3].flag)

\* C13 as stated: when the run aborts on a marked record no record has been passed
\* to cleanup or to checkDups: the maps and the Duplicate List are empty.
AbortBeforeAnyProcessing ==
    (MarkedInput /\ pc = LoggerError) =>
       /\ DOMAIN fragMap = {}
       /\ DOMAIN pairedMap = {}
       /\ mateMap = <<>>
       /\ dupList = <<>>
       /\ lastReference = -1
       /\ lastCoordinate = -1

\* the step reads a record that carries the duplicate flag while force mode is off
ReadsMarked ==
    /\ pc = "read"
    /\ ~opts.force
    /\ Len(file') = Len(file) + 1
    /\ isDuplicate(file'[Len(file')].flag)

\* C13, amended: with force mode off the run aborts in the step that reads the
\* first marked record: that record is passed neither to cleanup nor to
\* checkDups (the maps, the Duplicate List, the remembered position, the last
\* cleanup, the pool and the missing-mate count are left as they were) and no
\* step follows the abort, so nothing more is read.  Every record before it has
\* been through pass 1: a mapped one through checkDups, an unmapped one released;
\* the maps and the Duplicate List are as those records left them, empty or not.
AbortAtFirstMarked ==
    /\ [][ReadsMarked =>
             /\ pc' = LoggerError
             /\ UNCHANGED <<fragMap, pairedMap, mateMap, dupList, lastReference,
                            lastCoordinate, lastCleanup, freeRecs, numMissingMate,
                            pass2Vars>>]_vars
    /\ [][pc # LoggerError]_vars
    /\ [](~opts.force =>
             \A i \in 1..Len(file) :
                IF isDuplicate(file[i].flag)
                THEN /\ i = Len(file)
                     /\ pc = LoggerError
                     /\ fragWindow[i] = 0
                     /\ relCount[i] = 0
                     /\ \A k \in DOMAIN fragMap : fragMap[k].recordIndex # i
                     /\ \A k \in 1..Len(mateMap) : mateMap[k].data.recordIndex # i
                     /\ ~InDupList(i)
                ELSE i < Len(file) =>
                        IF isMapped(file[i].flag) THEN fragWindow[i] # 0
                        ELSE relCount[i] = 1)

\* The run has aborted on its third record; the first two were processed and
\* have left an entry in the Fragment Map and an index in the Duplicate List.
AbortAtFirstMarkedWitness ==
    /\ ~opts.force
    /\ pc = LoggerError
    /\ Len(file) = 3
    /\ isDuplicate(file[3].flag)
    /\ DOMAIN fragMap # {}
    /\ Len(dupList) = 1
    /\ lastCoordinate = 100

\* the pool has no released record and may not allocate one: getRecord is about
\* to return NULL
Exhausted ==
    /\ pc = "get"
    /\ freeRecs = <<>>
    /\ opts.maxRecs # -1
    /\ Len(slotRec) >= opts.maxRecs

\* C14: when the pool cannot supply a record in pass 1 the run ends at once with
\* an error: the step changes nothing else, and the only step that follows it
\* is the destruction of the object, after which there is none (no retry, no
\* read, no final cleanup, no sort); nothing has been or is written.
ExhaustionEndsRun ==
    /\ [][Exhausted => /\ pc' = "failed"
                       /\ recordPtr' = 0
                       /\ UNCHANGED <<file, slotRec, freeRecs, pass1Vars,
                                      pass2Vars>>]_vars
    /\ [][pc = "failed" => /\ pc' = "exitedFailed"
                           /\ UNCHANGED <<file, recordPtr, slotRec, dupList,
                                          numMissingMate, lastCleanup, pass2Vars>>]_vars
    /\ [][pc # "exitedFailed"]_vars
    /\ [](pc \in {"failed", "exitedFailed"} =>
             /\ out = <<>>
             /\ ~(lastCleanup.ran /\ ~lastCleanup.hasRecord))

\* The run has ended on a NULL from the pool while the maps held every record
\* the pool may allocate, with the input read as far as its third record.
ExhaustionEndsRunWitness ==
    /\ pc = "failed"
    /\ recordPtr = 0
    /\ Len(file) = 3
    /\ Len(slotRec) = opts.maxRecs
    /\ \A sl \in 1..Len(slotRec) : FragHeld(sl) + PairHeld(sl) + MateHeld(sl) = 1

\* record i is paired with a mapped mate on another chromosome
CrossChrom(i) ==
    /\ isMapped(file[i].flag)
    /\ isPaired(file[i].flag)
    /\ isMateMapped(file[i].flag)
    /\ file[i].ref # file[i].mref

\* C15: with one-chromosome mode on, a paired record whose mate is on another
\* chromosome is handled like an unpaired record from the fragment-map step on:
\* a Fragment Map entry that holds it is unpaired and owns its record, it never
\* enters the Mate-Wait Map or the Paired Map, it is never counted as a missing
\* mate, and at its key, among unpaired records, exactly the one of highest
\* quality sum (the earliest among equals) stays out of the Duplicate List.
DemotedLikeUnpaired ==
    opts.oneChrom =>
       /\ \A i \in 1..Len(file) :
             CrossChrom(i) =>
                /\ \A k \in DOMAIN fragMap :
                      fragMap[k].recordIndex = i =>
                         /\ ~fragMap[k].paired
                         /\ fragMap[k].recordPtr # 0
                         /\ slotRec[fragMap[k].recordPtr] = i
                /\ \A j \in 1..Len(mateMap) : mateMap[j].data.recordIndex # i
                /\ \A k \in DOMAIN pairedMap :
                      /\ pairedMap[k].record1Index # i
                      /\ pairedMap[k].record2Index # i
                /\ mateOf[i] = 0
                /\ missCount[i] = 0
       /\ \A w \in 1..Len(file) :
             (fragWindow[w] = w
              /\ \A i \in FragmentWindow(w) :
                    CrossChrom(i) \/ ~isPaired(file[i].flag)
                    \/ ~isMateMapped(file[i].flag)) =>
                \A i \in FragmentWindow(w) :
                   IF BestRead(i, FragmentWindow(w))
                   THEN ~InDupList(i)
                   ELSE Occurrences(dupList, i) = 1

\* With one-chromosome mode on, a cross-chromosome read of quality sum 20 lost
\* its entry to an unpaired read of quality sum 25, which lost it to a
\* cross-chromosome read of quality sum 30; the mate of the first, on the other
\* chromosome, then came and was not counted as missing a mate.
DemotedLikeUnpairedWitness ==
    /\ opts.oneChrom
    /\ pc = "get"
    /\ Len(file) = 4
    /\ CrossChrom(1) /\ ~isPaired(file[2].flag) /\ CrossChrom(3) /\ CrossChrom(4)
    /\ file[4].name = file[1].name
    /\ dupList = <<1, 2>>
    /\ numMissingMate = 0
    /\ mateMap = <<>>

\* C16: with recalibration on, processReadBuildTable is called at most once for
\* any record and never for an unmapped record or a record in the Duplicate
\* List; when pass 1 is over it has been called exactly once for every mapped
\* record whose index is not in the Duplicate List.
BuildTableOncePerNonDuplicate ==
    opts.recab =>
       /\ \A i \in 1..Len(file) :
             /\ buildCount[i] <= 1
             /\ InDupList(i) => buildCount[i] = 0
       /\ Pass1Over =>
             \A i \in 1..Len(file) :
                buildCount[i] = IF isMapped(file[i].flag) /\ ~InDupList(i)
                                THEN 1 ELSE 0

\* Pass 1 is over with recalibration on: an unpaired read, both reads of a pair
\* and a read whose mate never came were passed to the table, a duplicate was
\* not.
BuildTableOncePerNonDuplicateWitness ==
    /\ opts.recab
    /\ pc = "sort"
    /\ Len(file) = 5
    /\ Len(dupList) = 1
    /\ numMissingMate = 1
    /\ \E i, j \in 1..5 : i < j /\ mateOf[i] = j
    /\ SumSeq(buildCount, 1) = 4

IsAscending(s) == \A i \in 1..(Len(s) - 1) : s[i] <= s[i + 1]

\* pass 2 has begun: the input is reopened and the output is open
Pass2Begun == pc \in {"write", "done", "exited"}

\* C17: pass 2 begins only after pass 1 has read its last record, the unbounded
\* cleanup has run and the Duplicate List is sorted ascending, and none of them
\* changes afterwards; with recalibration on, modelFitPrediction is called
\* exactly once, after the last processReadBuildTable call and before the first
\* processReadApplyTable call and the first output record.
Pass2AfterPass1 ==
    /\ [](Pass2Begun => /\ lastCleanup.ran /\ ~lastCleanup.hasRecord
                        /\ IsAscending(dupList)
                        /\ fitCount = IF opts.recab THEN 1 ELSE 0)
    /\ [](~Pass2Begun => /\ fitCount = 0
                         /\ applied = <<>>
                         /\ out = <<>>
                         /\ p2Count = 0)
    /\ [][Pass2Begun' => /\ file' = file
                         /\ dupList' = dupList
                         /\ buildCount' = buildCount
                         /\ fitCount' = IF opts.recab THEN 1 ELSE 0]_vars

\* With recalibration on, pass 2 has written its first record: the table was
\* built from two records, the model was emitted once, and the Duplicate List,
\* filled as 1, 4, 2, is sorted.
Pass2AfterPass1Witness ==
    /\ opts.recab
    /\ pc = "write"
    /\ p2Count = 1
    /\ applied = <<1>>
    /\ Len(out) = 1
    /\ fitCount = 1
    /\ SumSeq(buildCount, 1) = 2
    /\ dupList = <<1, 2, 4>>
    /\ mateOf = <<0, 4, 5, 2, 3>>

\* record i has been through the mapped-record branch of pass 1's loop, or ended
\* the run in it
Processed(i) ==
    /\ isMapped(file[i].flag)
    /\ i < Len(file) \/ pc \notin {"position", "dedup"}

\* record i is in none of the maps and not in the Duplicate List
NeverStored(i) ==
    /\ fragWindow[i] = 0
    /\ \A k \in DOMAIN fragMap : fragMap[k].recordIndex # i
    /\ \A j \in 1..Len(mateMap) : mateMap[j].data.recordIndex # i
    /\ ~InDupList(i)

\* C18: a mapped record whose RG tag names a read group that the header does not
\* have ends the run at that record, even when the header declares two
\* libraries and every record's tag is looked up: the record is never stored
\* under a default library id.
UnknownReadGroupFatal ==
    opts.numLibraries > 1 =>
       \A i \in 1..Len(file) :
          (Processed(i) /\ file[i].rg # ""
           /\ file[i].rg \notin DOMAIN opts.rgidLibMap) =>
             /\ pc = LoggerError
             /\ i = Len(file)
             /\ NeverStored(i)

\* C19 as stated: a mapped record without an RG tag ends the run at that record,
\* whatever the number of libraries of the header.
MissingTagFatal ==
    \A i \in 1..Len(file) :
       (Processed(i) /\ file[i].rg = "") =>
          /\ pc = LoggerError
          /\ i = Len(file)
          /\ NeverStored(i)

\* C19, amended: a mapped record without an RG tag ends the run at that record
\* when the header declares more than one library; when it declares at most
\* one, the tag is not looked up, and the record is processed with library id 0.
MissingTagFatalSeveralLibraries ==
    \A i \in 1..Len(file) :
       (Processed(i) /\ file[i].rg = "") =>
          IF opts.numLibraries > 1
          THEN /\ pc = LoggerError
               /\ i = Len(file)
               /\ NeverStored(i)
          ELSE /\ pc # LoggerError
               /\ fragWindow[i] # 0
               /\ \A k \in DOMAIN fragMap :
                     fragMap[k].recordIndex = i => k.libraryID = 0

\* Under a header of two libraries, a read of read group A and a read of read
\* group B at one position were kept apart, and the run then ended on a read
\* without an RG tag.
MissingTagFatalSeveralLibrariesWitness ==
    /\ opts.numLibraries = 2
    /\ pc = LoggerError
    /\ Len(file) = 3
    /\ file[3].rg = "" /\ isMapped(file[3].flag)
    /\ Cardinality(DOMAIN fragMap) = 2
    /\ dupList = <<>>

\* the sum of the qualities of sequence q that are above the floor
SumAbove(q, floor) ==
    SumSeq([i \in 1..Len(q) |-> IF q[i] > floor THEN q[i] ELSE 0], 1)

\* C20: the quality sum kept for a record counts only the bases whose quality is
\* above minQual; a base whose quality equals minQual adds nothing.
QualitySumAboveFloor ==
    /\ \A k \in DOMAIN fragMap :
          fragMap[k].sumBaseQual =
             SumAbove(file[fragMap[k].recordIndex].qual, opts.minQual)
    /\ \A j \in 1..Len(mateMap) :
          mateMap[j].data.sumBaseQual =
             SumAbove(file[mateMap[j].data.recordIndex].qual, opts.minQual)

\* record i carries the unmapped flag
Unmapped(i) == Bit(file[i].flag, 4)

\* the loop of pass 1 is at an unmapped record, read and not yet released
AtUnmapped == pc \in {"position", "dedup"} /\ Unmapped(Len(file))

\* C21: an unmapped record is released to the pool exactly once, in the turn of
\* the loop that read it; it is never stored in the Fragment Map, the Paired Map
\* or the Mate-Wait Map, and its index is never in the Duplicate List.
UnmappedReleasedAtOnce ==
    /\ [](\A i \in 1..Len(file) :
             Unmapped(i) =>
                /\ relCount[i] = IF i = Len(file) /\ pc \in {"position", "dedup"}
                                 THEN 0 ELSE 1
                /\ NeverStored(i)
                /\ \A k \in DOMAIN pairedMap :
                      pairedMap[k].record1Index # i /\ pairedMap[k].record2Index # i)
    /\ [][(pc = "dedup" /\ Unmapped(Len(file))) =>
             /\ freeRecs' = Append(freeRecs, recordPtr)
             /\ pc' = "get"]_vars

\* An unmapped read placed at position 100 came between two mapped reads at
\* that position and was released while the first still held its entry.
UnmappedReleasedAtOnceWitness ==
    /\ pc = "get"
    /\ Len(file) = 3
    /\ ~Unmapped(1) /\ Unmapped(2) /\ ~Unmapped(3)
    /\ file[2].pos = 100
    /\ relCount[2] = 1
    /\ DOMAIN fragMap # {}

\* C27 as stated: while pass 1 handles an unmapped record no cleanup is run: the
\* Fragment Map, the Paired Map, the Mate-Wait Map and the missing-mate counter
\* stay as they are.
UnmappedLeavesMaps ==
    [][AtUnmapped => UNCHANGED <<fragMap, pairedMap, mateMap, numMissingMate>>]_vars

\* C27, amended: an unmapped record adds no entry to any map, changes no entry
\* and adds nothing to the Duplicate List; the position-change cleanup is run
\* for it as for a mapped record, so when its position is new the entries below
\* its cutoffs are removed and the waiting records among them are counted as
\* missing their mate.
UnmappedOnlyCleansUp ==
    [][AtUnmapped =>
          /\ DOMAIN fragMap' \subseteq DOMAIN fragMap
          /\ \A k \in DOMAIN fragMap' : fragMap'[k] = fragMap[k]
          /\ DOMAIN pairedMap' \subseteq DOMAIN pairedMap
          /\ \A k \in DOMAIN pairedMap' : pairedMap'[k] = pairedMap[k]
          /\ Len(mateMap') <= Len(mateMap)
          /\ mateMap' = SubSeq(mateMap, Len(mateMap) - Len(mateMap') + 1,
                               Len(mateMap))
          /\ numMissingMate' = numMissingMate + Len(mateMap) - Len(mateMap')
          /\ dupList' = dupList
          /\ (pc = "dedup" \/ ~hasPositionChanged(Incoming)) =>
                UNCHANGED <<fragMap, pairedMap, mateMap, numMissingMate>>]_vars

\* An unmapped read placed far downstream has just gone through the position
\* check: the cleanup run for it emptied the Fragment Map and counted the read
\* that waited in the Mate-Wait Map as missing its mate.
UnmappedOnlyCleansUpWitness ==
    /\ pc = "dedup"
    /\ Unmapped(Len(file))
    /\ lastCleanup.ran /\ lastCleanup.hasRecord
    /\ DOMAIN lastCleanup.fragMap # {} /\ DOMAIN fragMap = {}
    /\ Len(lastCleanup.mateMap) = 1 /\ mateMap = <<>>
    /\ numMissingMate = 1

\* C23: after a run that marks, a second run with --force on the marked output
\* does not stop at the marked records and ends pass 1 with the same Duplicate
\* List as the first run: the duplicate bit of the input decides nothing.
SameDupListOnMarked ==
    source.run = 2 =>
       /\ pc # LoggerError
       /\ pc \in {"open", "write", "done", "exited"} => dupList = source.firstDupList

\* The second run has read an output in which records are marked, and has
\* sorted a Duplicate List that is not empty.
SameDupListOnMarkedWitness ==
    /\ source.run = 2
    /\ opts.force
    /\ pc = "open"
    /\ Len(dupList) >= 2
    /\ \E i \in 1..Len(file) : isDuplicate(file[i].flag) /\ InDupList(i)
    /\ \E i \in 1..Len(file) : ~isDuplicate(file[i].flag)

\* C24: when a paired record with a mapped mate was compared at a Fragment Map
\* entry, every unpaired record compared at that entry between the same two
\* cleanups is in the Duplicate List, once, whatever its quality sum and whether
\* it came before or after the paired record.  The fragment-map step appends no
\* paired record: a paired record is in the Duplicate List only with its mate, as
\* a completed pair.  A Fragment Map entry marked paired holds no record pointer.
UnpairedLoseToPaired ==
    /\ \A w \in 1..Len(file) :
          (fragWindow[w] = w /\ \E p \in FragmentWindow(w) : PairedRecord(p)) =>
             \A i \in FragmentWindow(w) :
                ~PairedRecord(i) => Occurrences(dupList, i) = 1
    /\ \A i \in 1..Len(file) :
          (PairedRecord(i) /\ InDupList(i)) =>
             mateOf[i] # 0 /\ InDupList(mateOf[i])
    /\ \A k \in DOMAIN fragMap : fragMap[k].paired => fragMap[k].recordPtr = 0

\* An unpaired record, then a paired one, then an unpaired one of higher quality
\* than both have been compared at one entry, which is still in the Fragment
\* Map: both unpaired records are in the Duplicate List, the paired one is not.
UnpairedLoseToPairedWitness ==
    /\ pc = "get"
    /\ \E w, p, u \in 1..Len(file) :
          /\ w < p /\ p < u
          /\ fragWindow[w] = w /\ fragWindow[p] = w /\ fragWindow[u] = w
          /\ ~PairedRecord(w) /\ PairedRecord(p) /\ ~PairedRecord(u)
          /\ QualityOf(u) > QualityOf(p) /\ QualityOf(u) > QualityOf(w)
          /\ InDupList(w) /\ InDupList(u) /\ ~InDupList(p)
          /\ \E k \in DOMAIN fragMap : fragMap[k].paired /\ fragMap[k].recordIndex = p

\* the linearized positions of the incoming record and of its mate
ReadPos == combineChromPos(Incoming.ref, Incoming.pos)

MatePos == combineChromPos(Incoming.mref, Incoming.mpos)

\* the Mate-Wait entries at the incoming record's position whose record has its
\* read name
Waiting ==
    {i \in 1..Len(mateMap) :
        /\ mateMap[i].key = ReadPos
        /\ file[mateMap[i].data.recordIndex].name = Incoming.name}

\* checkDups put the incoming record into the Mate-Wait Map, keyed by its mate's
\* position, and left the Paired Map alone
WaitsForMate ==
    /\ pairedMap' = pairedMap
    /\ Len(mateMap') = Len(mateMap) + 1
    /\ \E i \in 1..Len(mateMap') :
          /\ mateMap'[i].key = MatePos
          /\ mateMap'[i].data.recordIndex = Len(file)
          /\ mateMap'[i].data.recordPtr = recordPtr
    /\ \A i \in 1..Len(mateMap) :
          \E j \in 1..Len(mateMap') : mateMap'[j] = mateMap[i]

\* checkDups took the waiting record m out of the Mate-Wait Map and made a
\* completed pair of it and the incoming record, with the sum of their qualities
MatchesMate(m) ==
    /\ Len(mateMap') = Len(mateMap) - 1
    /\ \A i \in 1..Len(mateMap') : mateMap'[i].data.recordIndex # m
    /\ mateOf'[Len(file)] = m
    /\ mateOf'[m] = Len(file)
    /\ missCount' = missCount
    /\ \/ \E k \in DOMAIN pairedMap' :
             /\ pairedMap'[k].record1Index = Len(file)
             /\ pairedMap'[k].record2Index = m
             /\ pairedMap'[k].sumBaseQual = QualityOf(Len(file)) + QualityOf(m)
       \/ /\ pairedMap' = pairedMap
          /\ dupList' = dupList \o <<m, Len(file)>>
          /\ \E k \in DOMAIN pairedMap :
                pairedMap[k].sumBaseQual >= QualityOf(Len(file)) + QualityOf(m)

\* records i and j are the two mates of a pair at one position
MatesAtOnePosition(i, j) ==
    /\ i < j
    /\ PairedRecord(i) /\ PairedRecord(j)
    /\ file[i].name = file[j].name
    /\ file[i].ref = file[j].ref /\ file[i].pos = file[j].pos
    /\ file[i].mref = file[i].ref /\ file[i].mpos = file[i].pos
    /\ file[j].mref = file[j].ref /\ file[j].mpos = file[j].pos

\* C25: checkDups puts a paired record whose mate's position is strictly greater
\* than its own into the Mate-Wait Map, keyed by the mate's position, and leaves
\* the Paired Map unchanged; a paired record that finds a record of its name
\* waiting at its own position takes it out of the Mate-Wait Map and forms a
\* completed pair with it, whose quality is the sum of both.  Of two mates at one
\* position the first is put into the Mate-Wait Map and the second matches it:
\* neither is counted as a missing mate.
MateResolution ==
    /\ [][(pc = "dedup" /\ isMapped(Incoming.flag) /\ RecordPaired(Incoming)) =>
             /\ ChromPosLess(ReadPos, MatePos) => WaitsForMate
             /\ (MatePos = ReadPos /\ Waiting = {}) => WaitsForMate
             /\ (ChromPosLeq(MatePos, ReadPos) /\ Waiting # {}) =>
                   \E i \in Waiting : MatchesMate(mateMap[i].data.recordIndex)]_vars
    /\ [](\A i, j \in 1..Len(file) :
             (MatesAtOnePosition(i, j) /\ (j < Len(file) \/ pc \notin {"position", "dedup"})) =>
                /\ mateOf[i] = j /\ mateOf[j] = i
                /\ missCount[i] = 0 /\ missCount[j] = 0)

\* Two mates at one position are stored as a pair with the sum of their
\* qualities, a pair whose second mate came 200 bases after the first is stored
\* as well, and no mate has been counted as missing.
MateResolutionWitness ==
    /\ pc = "get"
    /\ numMissingMate = 0
    /\ \E i, j \in 1..Len(file) :
          /\ MatesAtOnePosition(i, j)
          /\ \E k \in DOMAIN pairedMap :
                /\ pairedMap[k].record1Index = j
                /\ pairedMap[k].record2Index = i
                /\ pairedMap[k].sumBaseQual = 45
    /\ \E i, j \in 1..Len(file) :
          /\ file[i].pos < file[j].pos
          /\ mateOf[i] = j
          /\ \E k \in DOMAIN pairedMap : pairedMap[k].record2Index = i

\* record i is at the reference and coordinate of the record being processed
AtIncomingPosition(i) ==
    /\ file[i].ref = Incoming.ref
    /\ file[i].pos = Incoming.pos

\* C26: the position test is true exactly when the record's reference id differs
\* from the remembered one or its coordinate is strictly greater than the
\* remembered one; then, and only then, the remembered position becomes the
\* record's and cleanup runs.  A record at the reference and coordinate of its
\* predecessor triggers no cleanup, and when a record is compared no record of
\* its position has been finalized by a cleanup: those released are in the
\* Duplicate List or found their mate missing on arrival.
PositionChangeTriggersCleanup ==
    /\ [][pc = "position" =>
             IF Incoming.ref # lastReference \/ lastCoordinate < Incoming.pos
             THEN /\ lastCleanup'.ran
                  /\ lastReference' = Incoming.ref
                  /\ lastCoordinate' = Incoming.pos
             ELSE /\ ~lastCleanup'.ran
                  /\ UNCHANGED <<lastReference, lastCoordinate, fragMap, pairedMap,
                                 mateMap, relCount, missCount>>]_vars
    /\ [][(pc = "position" /\ Len(file) >= 2 /\ AtIncomingPosition(Len(file) - 1)) =>
             ~lastCleanup'.ran]_vars
    /\ [](pc = "dedup" =>
             \A i \in 1..(Len(file) - 1) :
                (AtIncomingPosition(i) /\ ~Unmapped(i) /\ relCount[i] = 1) =>
                   \/ InDupList(i)
                   \/ /\ missCount[i] = 1
                      /\ ChromPosLess(combineChromPos(file[i].mref, file[i].mpos),
                                      combineChromPos(file[i].ref, file[i].pos)))

\* The third record at one position is about to be compared: no cleanup ran for
\* it, the remembered position is its own, and of the records before it at the
\* position one waits in the Mate-Wait Map and the other is in the Duplicate
\* List.
PositionChangeTriggersCleanupWitness ==
    /\ pc = "dedup"
    /\ Len(file) >= 3
    /\ ~lastCleanup.ran
    /\ lastReference = Incoming.ref /\ lastCoordinate = Incoming.pos
    /\ AtIncomingPosition(Len(file) - 1) /\ AtIncomingPosition(Len(file) - 2)
    /\ \E i \in 1..Len(mateMap) : mateMap[i].data.recordIndex >= Len(file) - 2
    /\ \E i \in (Len(file) - 2)..(Len(file) - 1) : relCount[i] = 1 /\ InDupList(i)

\* s[i] < s[i + 1] throughout
IsStrictlyAscending(s) == \A i \in 1..(Len(s) - 1) : s[i] < s[i + 1]

\* C28: in every state no record index is in the Duplicate List more than once,
\* and every index in it is that of a mapped record that has been read; once
\* sorted, the list is strictly increasing.
DupListDistinctMapped ==
    /\ \A j \in 1..Len(dupList) :
          /\ dupList[j] \in 1..Len(file)
          /\ ~Unmapped(dupList[j])
          /\ Occurrences(dupList, dupList[j]) = 1
    /\ pc \in {"open", "write", "done", "exited"} => IsStrictlyAscending(dupList)

\* Pass 1 is over and the sorted list holds an unpaired record and both mates
\* of a pair that lost to a pair read after it.
DupListDistinctMappedWitness ==
    /\ pc = "open"
    /\ Len(dupList) = 3
    /\ \E j \in 1..Len(dupList) : ~PairedRecord(dupList[j])
    /\ \E j \in 1..Len(dupList) :
          /\ PairedRecord(dupList[j])
          /\ InDupList(mateOf[dupList[j]])
          /\ \E i \in 1..Len(file) :
                PairedRecord(i) /\ ~InDupList(i) /\ i > dupList[j] /\ i > mateOf[dupList[j]]

\* the next turn of pass 2's loop reads myDupList[currentDupIndex]
CursorDereferenced == pc = "write" /\ p2Count < Len(file) /\ moreDups

\* C29: in pass 2 the cursor is dereferenced only while it is strictly less than
\* the length of the Duplicate List; once the last duplicate index has been
\* matched the list is not read again.
CursorInBounds == CursorDereferenced => currentDupIndex < Len(dupList)

\* the records acquired from the pool and not released
Outstanding == Len(slotRec) - Len(freeRecs)

\* the records the entries of the three maps stand for: one for an unpaired
\* Fragment Map entry, one for a Mate-Wait entry, two for a Paired Map entry
HeldByMaps ==
    Cardinality({k \in DOMAIN fragMap : ~fragMap[k].paired})
    + Len(mateMap)
    + 2 * Cardinality(DOMAIN pairedMap)

\* C30: after each record of pass 1 has been processed the records acquired and
\* not released are those held by the map entries; after the final cleanup
\* every record acquired in pass 1, the one acquired for the read that met the end
\* of the input included, has been released.
PoolBalance ==
    /\ pc = "get" => Outstanding = HeldByMaps
    /\ Pass1Over => Outstanding = 0

====
